---- MODULE Spec2Model ----
(***************************************************************************)
(* Decision-threshold calibration of api_server.py: the per-condition      *)
(* threshold scan (lines 382-395), the final metrics (397-404) and the     *)
(* storage of the result (406-414); the startup loop that trains one       *)
(* model per condition (339-417) and the request handlers (481-888).       *)
(*                                                                         *)
(* Spec is one calibration, SpecConfig the same code on an empty grid and  *)
(* on inputs of different lengths, SpecRecall the recall at a threshold,   *)
(* SpecServer the startup followed by requests, SpecPredict the server     *)
(* with all seven conditions trained, SpecFetch fetch_openweather_point    *)
(* (138-182), SpecTargets create_enhanced_weather_targets (253-269),       *)
(* SpecSeason the two season functions, SpecPreprocessor the               *)
(* WeatherDataPreprocessor object of preprocess_data.py.                   *)
(*                                                                         *)
(* Probabilities and thresholds are integers in hundredths (0.5 is 50).    *)
(* Metrics are exact fractions <<numerator, denominator>> with a positive  *)
(* denominator, compared by cross-multiplication.  The code evaluates      *)
(* them in binary64; for evaluation sets of up to 6 samples the binary64   *)
(* values order and tie exactly as the fractions do.                       *)
(***************************************************************************)
EXTENDS Integers, Sequences, FiniteSets, TLC

VARIABLES
    condition_name, \* key of the condition being calibrated
    probs,          \* model.predict_proba(X_test)[:, 1]
    y_test,         \* held-out labels
    thresh_range,   \* the grid the for loop iterates
    idx,            \* position of the for loop in thresh_range
    t,              \* loop variable
    preds,          \* (probs >= t).astype(int)
    rec, prec,      \* recall_score / precision_score results (scan and final)
    score,          \* rec * 0.6 + prec * 0.4
    best_thresh, best_score,
    final_preds,    \* (probs >= best_thresh).astype(int)
    acc, f1,
    thresholds,     \* thresholds[condition_name]
    metrics,        \* metrics[condition_name]
    models,         \* models[condition_name]
    targets,        \* per condition: the labels and what training yields
    todo,           \* conditions `for condition_name, y in targets.items()` has left
    request,        \* the arguments of the last request and what its calls met
    fetch_called,   \* whether the last request called fetch_openweather_point
    response,       \* what the last request handler returned
    pc,
    \* fetch_openweather_point (lines 138-182)
    OWM_API_KEY,    \* whether the key is set in the environment
    start_date, end_date, \* day numbers; today is day 0
    params_list,
    d,              \* loop variable of `while d <= hist_end`
    parts,
    requested,      \* the days _owm_timemachine_daily was called for, in order
    forecast,       \* what became of the forecast call
    fetched,        \* what fetch_openweather_point returned or raised
    fetch_pc,
    \* create_enhanced_weather_targets (lines 253-269), one row at a time
    df_row,         \* PRCP, TMAX, TMIN, WIND_SPEED, HUMIDITY, HEAT_INDEX of a row
    row_targets,    \* the seven labels of the row
    \* get_season and the preprocessor's _get_season
    MONTH,
    season,         \* what the two functions returned for MONTH
    \* a WeatherDataPreprocessor object (preprocess_data.py)
    df,             \* the columns of self.df
    feature_sets,   \* self.feature_sets, Unset while the attribute is missing
    files,          \* the files written, with their columns
    executed,       \* every method that began to run, in order
    last            \* the last call from outside: method, methods it ran, outcome

vars == <<condition_name, probs, y_test, thresh_range, idx, t, preds, rec, prec,
          score, best_thresh, best_score, final_preds, acc, f1, thresholds,
          metrics, models, targets, todo, request, fetch_called, response, pc,
          OWM_API_KEY, start_date, end_date, params_list, d, parts, requested,
          forecast, fetched, fetch_pc, df_row, row_targets, MONTH, season,
          df, feature_sets, files, executed, last>>

\* the variables of the calibration and the server
serverVars == <<condition_name, probs, y_test, thresh_range, idx, t, preds, rec,
                prec, score, best_thresh, best_score, final_preds, acc, f1,
                thresholds, metrics, models, targets, todo, request,
                fetch_called, response, pc>>

\* the variables of fetch_openweather_point
fetchVars == <<OWM_API_KEY, start_date, end_date, params_list, d, parts,
               requested, forecast, fetched, fetch_pc>>

\* the variables of create_enhanced_weather_targets
rowVars == <<df_row, row_targets>>

\* the variables of the two season functions
seasonVars == <<MONTH, season>>

\* the variables of the preprocessor object
preprocessorVars == <<df, feature_sets, files, executed, last>>

\* the variables outside the calibration and the server
otherVars == <<fetchVars, rowVars, seasonVars, preprocessorVars>>

\* fetch_openweather_point has not been called
FetchIdle ==
    /\ OWM_API_KEY = TRUE
    /\ start_date = 0
    /\ end_date = 0
    /\ params_list = {}
    /\ d = 0
    /\ parts = <<>>
    /\ requested = <<>>
    /\ forecast = "not_requested"
    /\ fetched = <<>>
    /\ fetch_pc = "idle"

\* create_enhanced_weather_targets has not been called
TargetsIdle ==
    /\ df_row = <<>>
    /\ row_targets = <<>>

\* no season has been asked for
SeasonIdle ==
    /\ MONTH = 0
    /\ season = <<>>

\* no preprocessor has been constructed
PreprocessorIdle ==
    /\ df = {}
    /\ feature_sets = <<>>
    /\ files = <<>>
    /\ executed = <<>>
    /\ last = <<>>

OthersIdle == FetchIdle /\ TargetsIdle /\ SeasonIdle /\ PreprocessorIdle

-----------------------------------------------------------------------------
(* Bounds of the model *)

MaxN == 3          \* largest enumerated evaluation set
MaxGridLen == 2    \* longest enumerated sub-grid
NumConds == 2      \* conditions trained at startup

ProbValues == {10, 30, 50, 90}
GridValues == {20, 40, 50, 58, 70}

-----------------------------------------------------------------------------
(* Program constants *)

DefaultThresh == 50     \* best_thresh = 0.5
GridStart == 10         \* np.arange(0.1, 0.9, 0.01)
GridStop == 90
GridStep == 1
RecallWeight == 6       \* rec * 0.6
PrecisionWeight == 4    \* prec * 0.4
ConfidenceFloor == 10   \* max(thresh, 0.1)

-----------------------------------------------------------------------------
(* Fractions *)

Unset == <<>>                       \* a name not assigned yet
Zero == <<0, 1>>
FracGt(a, b) == a[1] * b[2] > b[1] * a[2]
FracGe(a, b) == a[1] * b[2] >= b[1] * a[2]
FracEq(a, b) == a[1] * b[2] = b[1] * a[2]

-----------------------------------------------------------------------------
(* Binarization and the sklearn metrics, binary average, pos_label = 1 *)

BinarizeBelow(p, th) == [i \in DOMAIN p |-> IF p[i] <= th THEN 1 ELSE 0]  \* mutant
Binarize(p, th) == [i \in DOMAIN p |-> IF p[i] >= th THEN 1 ELSE 0]

NumUnique(p) == Cardinality({p[i] : i \in DOMAIN p})

TruePos(y, p) == Cardinality({i \in DOMAIN y : y[i] = 1 /\ p[i] = 1})
FalsePos(y, p) == Cardinality({i \in DOMAIN y : y[i] = 0 /\ p[i] = 1})
FalseNeg(y, p) == Cardinality({i \in DOMAIN y : y[i] = 1 /\ p[i] = 0})
TrueNeg(y, p) == Cardinality({i \in DOMAIN y : y[i] = 0 /\ p[i] = 0})

\* every sklearn metric raises ValueError on inputs of different lengths
ConsistentPrefix(y, p) == Len(y) <= Len(p)  \* mutant: only the labels are covered
ConsistentLength(y, p) == Len(y) = Len(p)

\* zero_division=0: the result is 0 when the denominator is 0
recall_score(y, p) ==
    LET tp == TruePos(y, p)
        den == tp + FalseNeg(y, p)
    IN  IF den = 0 THEN Zero ELSE <<tp, den>>

PrecisionNoZeroDivision(y, p) ==      \* mutant: tp / (tp + fp) unguarded
    <<TruePos(y, p), TruePos(y, p) + FalsePos(y, p)>>

precision_score(y, p) ==
    LET tp == TruePos(y, p)
        den == tp + FalsePos(y, p)
    IN  IF den = 0 THEN Zero ELSE <<tp, den>>

f1_score(y, p) ==
    LET tp == TruePos(y, p)
        den == 2 * tp + FalsePos(y, p) + FalseNeg(y, p)
    IN  IF den = 0 THEN Zero ELSE <<2 * tp, den>>

accuracy_score(y, p) == <<TruePos(y, p) + TrueNeg(y, p), Len(y)>>

\* len(np.unique(preds)) > 1
NoClassCheck(p) == TRUE                     \* mutant: the check is dropped
BothClasses(p) == NumUnique(p) > 1

\* score > best_score
ImprovesOrTies(s, b) == FracGe(s, b)        \* mutant: score >= best_score
ImprovesOnZero(s, b) == FracGt(s, Zero)     \* mutant: score > 0
Improves(s, b) == FracGt(s, b)

\* rec * 0.6 + prec * 0.4
WeightedScoreSwapped(r, p) ==         \* mutant: rec * 0.4 + prec * 0.6
    <<PrecisionWeight * r[1] * p[2] + RecallWeight * p[1] * r[2], 10 * r[2] * p[2]>>

WeightedScore(r, p) ==
    <<RecallWeight * r[1] * p[2] + PrecisionWeight * p[1] * r[2], 10 * r[2] * p[2]>>

-----------------------------------------------------------------------------
(* Inputs *)

RECURSIVE Ascending(_)
Ascending(S) ==
    IF S = {} THEN <<>>
    ELSE LET m == CHOOSE x \in S : \A z \in S : x <= z
         IN  <<m>> \o Ascending(S \ {m})

\* np.arange(0.1, 0.9, 0.01): 0.10, 0.11, ..., 0.89
ArangeGrid ==
    [i \in 1..((GridStop - GridStart) \div GridStep) |-> GridStart + (i - 1) * GridStep]

ScenarioGrid == <<20, 40, 50, 58, 70>>
ScenarioProbs == <<10, 30, 55, 60, 90>>
ScenarioLabels == <<0, 0, 1, 0, 1>>

SubGrids ==
    {Ascending(S) : S \in {g \in SUBSET GridValues :
                             Cardinality(g) >= 1 /\ Cardinality(g) <= MaxGridLen}}

Grids == {ArangeGrid, ScenarioGrid} \cup SubGrids

EvalSets ==
    {<<ScenarioProbs, ScenarioLabels>>} \cup
    UNION {([1..n -> ProbValues] \X [1..n -> {0, 1}]) : n \in 1..MaxN}

-----------------------------------------------------------------------------
(* The calibration of one condition *)

Init ==
    /\ condition_name = "rain"
    /\ \E e \in EvalSets : probs = e[1] /\ y_test = e[2]
    /\ thresh_range \in Grids
    /\ idx = 1
    /\ t = -1
    /\ preds = Unset
    /\ rec = Unset
    /\ prec = Unset
    /\ score = Unset
    /\ best_thresh = DefaultThresh
    /\ best_score = Zero
    /\ final_preds = Unset
    /\ acc = Unset
    /\ f1 = Unset
    /\ thresholds = <<>>
    /\ metrics = <<>>
    /\ models = <<>>
    /\ targets = <<>>
    /\ todo = <<>>
    /\ request = <<>>
    /\ fetch_called = FALSE
    /\ response = <<>>
    /\ pc = "scan"
    /\ OthersIdle

\* mutant: the iteration with the recall ceiling of 0.75 the specification
\* describes (a threshold whose recall exceeds the ceiling is skipped)
ScanStepCeiling ==
    /\ pc = "scan"
    /\ idx <= Len(thresh_range)
    /\ LET th == thresh_range[idx]
           p == Binarize(probs, th)
           r == recall_score(y_test, p)
           q == precision_score(y_test, p)
           s == WeightedScore(r, q)
       IN  /\ BothClasses(p) => ConsistentLength(y_test, p)
           /\ t' = th
           /\ preds' = p
           /\ IF BothClasses(p)
              THEN /\ rec' = r
                   /\ prec' = q
                   /\ IF FracGt(r, <<3, 4>>)
                      THEN UNCHANGED <<score, best_score, best_thresh>>
                      ELSE /\ score' = s
                           /\ IF Improves(s, best_score)
                              THEN best_score' = s /\ best_thresh' = th
                              ELSE UNCHANGED <<best_score, best_thresh>>
              ELSE UNCHANGED <<rec, prec, score, best_score, best_thresh>>
    /\ idx' = idx + 1
    /\ UNCHANGED <<condition_name, probs, y_test, thresh_range, final_preds, acc,
                   f1, thresholds, metrics, pc>>
    /\ UNCHANGED <<models, targets, todo, response>>
    /\ UNCHANGED <<request, fetch_called>>
    /\ UNCHANGED otherVars

\* one iteration of `for t in thresh_range` (lines 387-395)
ScanStep ==
    /\ pc = "scan"
    /\ idx <= Len(thresh_range)
    /\ LET th == thresh_range[idx]
           p == Binarize(probs, th)
           r == recall_score(y_test, p)
           q == precision_score(y_test, p)
           s == WeightedScore(r, q)
       IN  /\ BothClasses(p) => ConsistentLength(y_test, p)
           /\ t' = th
           /\ preds' = p
           /\ IF BothClasses(p)
              THEN /\ rec' = r
                   /\ prec' = q
                   /\ score' = s
                   /\ IF Improves(s, best_score)
                      THEN best_score' = s /\ best_thresh' = th
                      ELSE UNCHANGED <<best_score, best_thresh>>
              ELSE UNCHANGED <<rec, prec, score, best_score, best_thresh>>
    /\ idx' = idx + 1
    /\ UNCHANGED <<condition_name, probs, y_test, thresh_range, final_preds, acc,
                   f1, thresholds, metrics, pc>>
    /\ UNCHANGED <<models, targets, todo, response>>
    /\ UNCHANGED <<request, fetch_called>>
    /\ UNCHANGED otherVars

\* mutant: the final predictions are taken at 0.5 instead of best_thresh
FinalMetricsAtDefault ==
    /\ pc = "scan"
    /\ idx > Len(thresh_range)
    /\ ConsistentLength(y_test, probs)
    /\ LET fp == Binarize(probs, DefaultThresh)
       IN  /\ final_preds' = fp
           /\ acc' = accuracy_score(y_test, fp)
           /\ prec' = precision_score(y_test, fp)
           /\ rec' = recall_score(y_test, fp)
           /\ f1' = f1_score(y_test, fp)
    /\ pc' = "store"
    /\ UNCHANGED <<condition_name, probs, y_test, thresh_range, idx, t, preds,
                   score, best_thresh, best_score, thresholds, metrics>>
    /\ UNCHANGED <<models, targets, todo, response>>
    /\ UNCHANGED <<request, fetch_called>>
    /\ UNCHANGED otherVars

\* mutant: an empty grid is rejected instead of falling through to the default
FinalMetricsRejectsEmptyGrid ==
    /\ pc = "scan"
    /\ idx > Len(thresh_range)
    /\ ConsistentLength(y_test, probs)
    /\ IF thresh_range = <<>>
       THEN /\ pc' = "failed"
            /\ UNCHANGED <<final_preds, acc, prec, rec, f1>>
       ELSE LET fp == Binarize(probs, best_thresh)
            IN  /\ final_preds' = fp
                /\ acc' = accuracy_score(y_test, fp)
                /\ prec' = precision_score(y_test, fp)
                /\ rec' = recall_score(y_test, fp)
                /\ f1' = f1_score(y_test, fp)
                /\ pc' = "store"
    /\ UNCHANGED <<condition_name, probs, y_test, thresh_range, idx, t, preds,
                   score, best_thresh, best_score, thresholds, metrics>>
    /\ UNCHANGED <<models, targets, todo, response>>
    /\ UNCHANGED <<request, fetch_called>>
    /\ UNCHANGED otherVars

\* the loop is exhausted; lines 397-404
FinalMetrics ==
    /\ pc = "scan"
    /\ idx > Len(thresh_range)
    /\ ConsistentLength(y_test, probs)
    /\ LET fp == Binarize(probs, best_thresh)
       IN  /\ final_preds' = fp
           /\ acc' = accuracy_score(y_test, fp)
           /\ prec' = precision_score(y_test, fp)
           /\ rec' = recall_score(y_test, fp)
           /\ f1' = f1_score(y_test, fp)
    /\ pc' = "store"
    /\ UNCHANGED <<condition_name, probs, y_test, thresh_range, idx, t, preds,
                   score, best_thresh, best_score, thresholds, metrics>>
    /\ UNCHANGED <<models, targets, todo, response>>
    /\ UNCHANGED <<request, fetch_called>>
    /\ UNCHANGED otherVars

\* lines 406-414
StoreResults ==
    /\ pc = "store"
    /\ models' = (condition_name :> "XGBClassifier") @@ models
    /\ thresholds' = (condition_name :> best_thresh) @@ thresholds
    /\ metrics' = (condition_name :>
                      [accuracy |-> acc, precision |-> prec, recall |-> rec,
                       f1_score |-> f1]) @@ metrics
    /\ pc' = "done"
    /\ UNCHANGED <<condition_name, probs, y_test, thresh_range, idx, t, preds,
                   rec, prec, score, best_thresh, best_score, final_preds, acc, f1>>
    /\ UNCHANGED <<targets, todo, response>>
    /\ UNCHANGED <<request, fetch_called>>
    /\ UNCHANGED otherVars

Next == ScanStep \/ FinalMetrics \/ StoreResults

Spec == Init /\ [][Next]_vars

-----------------------------------------------------------------------------
(* The same code on an empty grid and on probabilities and labels of
   different lengths: the exception of a metric call leaves the loop *)

MismatchedSets ==
    UNION {([1..n -> ProbValues] \X [1..m -> {0, 1}]) :
              <<n, m>> \in {nm \in (1..MaxN) \X (1..MaxN) : nm[1] # nm[2]}}

InitConfig ==
    /\ condition_name = "rain"
    /\ \/ /\ \E e \in EvalSets : probs = e[1] /\ y_test = e[2]
          /\ thresh_range = <<>>
       \/ /\ \E e \in MismatchedSets : probs = e[1] /\ y_test = e[2]
          /\ thresh_range \in Grids \cup {<<>>}
    /\ idx = 1
    /\ t = -1
    /\ preds = Unset
    /\ rec = Unset
    /\ prec = Unset
    /\ score = Unset
    /\ best_thresh = DefaultThresh
    /\ best_score = Zero
    /\ final_preds = Unset
    /\ acc = Unset
    /\ f1 = Unset
    /\ thresholds = <<>>
    /\ metrics = <<>>
    /\ models = <<>>
    /\ targets = <<>>
    /\ todo = <<>>
    /\ request = <<>>
    /\ fetch_called = FALSE
    /\ response = <<>>
    /\ pc = "scan"
    /\ OthersIdle

\* recall_score(y_test, preds) raises ValueError (line 390)
ScanRaises ==
    /\ pc = "scan"
    /\ idx <= Len(thresh_range)
    /\ LET th == thresh_range[idx]
           p == Binarize(probs, th)
       IN  /\ BothClasses(p)
           /\ ~ConsistentLength(y_test, p)
           /\ t' = th
           /\ preds' = p
    /\ pc' = "failed"
    /\ UNCHANGED <<condition_name, probs, y_test, thresh_range, idx, rec, prec,
                   score, best_thresh, best_score, final_preds, acc, f1,
                   thresholds, metrics, models, targets, todo, response>>
    /\ UNCHANGED <<request, fetch_called>>
    /\ UNCHANGED otherVars

\* accuracy_score(y_test, final_preds) raises ValueError (line 401)
FinalRaises ==
    /\ pc = "scan"
    /\ idx > Len(thresh_range)
    /\ ~ConsistentLength(y_test, probs)
    /\ final_preds' = Binarize(probs, best_thresh)
    /\ pc' = "failed"
    /\ UNCHANGED <<condition_name, probs, y_test, thresh_range, idx, t, preds,
                   rec, prec, score, best_thresh, best_score, acc, f1,
                   thresholds, metrics, models, targets, todo, response>>
    /\ UNCHANGED <<request, fetch_called>>
    /\ UNCHANGED otherVars

NextConfig == ScanStep \/ ScanRaises \/ FinalMetrics \/ FinalRaises \/ StoreResults

SpecConfig == InitConfig /\ [][NextConfig]_vars

-----------------------------------------------------------------------------
(* Startup: one model per condition; then the request handlers *)

\* the keys of `targets`, in the order of the dict literal
ConditionNames ==
    <<"rain", "very_hot", "very_cold", "very_wet", "very_windy", "very_humid",
      "uncomfortable">>
Conditions == SubSeq(ConditionNames, 1, NumConds)

\* what the test split and predict_proba yield for a condition
TrainEvalSets ==
    {<<(<<10, 90>>), (<<0, 1>>)>>,
     <<(<<30, 50, 90>>), (<<1, 0, 1>>)>>,
     <<(<<50, 50>>), (<<0, 1>>)>>,
     <<(<<10, 30, 90>>), (<<0, 1, 1>>)>>}

\* diverse: y has both classes; raises: the split, SMOTE, fit or
\* predict_proba raises (SMOTE needs 6 minority samples, the guard asks for 2)
TrainCases ==
    {[diverse |-> FALSE, raises |-> FALSE, probs |-> <<>>, y_test |-> <<>>],
     [diverse |-> TRUE, raises |-> TRUE, probs |-> <<>>, y_test |-> <<>>]}
    \cup {[diverse |-> TRUE, raises |-> FALSE, probs |-> e[1], y_test |-> e[2]] :
              e \in TrainEvalSets}

InitServer ==
    /\ targets \in [{Conditions[i] : i \in DOMAIN Conditions} -> TrainCases]
    /\ todo = Conditions
    /\ models = <<>>
    /\ thresholds = <<>>
    /\ metrics = <<>>
    /\ condition_name = ""
    /\ probs = Unset
    /\ y_test = Unset
    /\ thresh_range = Unset
    /\ idx = 1
    /\ t = -1
    /\ preds = Unset
    /\ rec = Unset
    /\ prec = Unset
    /\ score = Unset
    /\ best_thresh = Unset
    /\ best_score = Unset
    /\ final_preds = Unset
    /\ acc = Unset
    /\ f1 = Unset
    /\ request = <<>>
    /\ fetch_called = FALSE
    /\ response = <<>>
    /\ pc = "loop"
    /\ OthersIdle

\* at `for condition_name, y in targets.items()`
AtLoopHead == pc \in {"loop", "done"}

\* lines 339-345: a single-class target is skipped
SkipCondition ==
    /\ AtLoopHead
    /\ todo # <<>>
    /\ ~targets[Head(todo)].diverse
    /\ condition_name' = Head(todo)
    /\ todo' = Tail(todo)
    /\ pc' = "loop"
    /\ UNCHANGED <<probs, y_test, thresh_range, idx, t, preds, rec, prec, score,
                   best_thresh, best_score, final_preds, acc, f1, thresholds,
                   metrics, models, targets, response>>
    /\ UNCHANGED <<request, fetch_called>>
    /\ UNCHANGED otherVars

\* lines 339-380: an exception of the training steps is not caught and ends
\* the module's execution
TrainingRaises ==
    /\ AtLoopHead
    /\ todo # <<>>
    /\ targets[Head(todo)].diverse
    /\ targets[Head(todo)].raises
    /\ condition_name' = Head(todo)
    /\ todo' = Tail(todo)
    /\ pc' = "failed"
    /\ UNCHANGED <<probs, y_test, thresh_range, idx, t, preds, rec, prec, score,
                   best_thresh, best_score, final_preds, acc, f1, thresholds,
                   metrics, models, targets, response>>
    /\ UNCHANGED <<request, fetch_called>>
    /\ UNCHANGED otherVars

\* mutant: best_score = 0 is executed once, before the loop
BeginCalibrationHoistedScore ==
    /\ AtLoopHead
    /\ todo # <<>>
    /\ targets[Head(todo)].diverse
    /\ ~targets[Head(todo)].raises
    /\ condition_name' = Head(todo)
    /\ todo' = Tail(todo)
    /\ probs' = targets[Head(todo)].probs
    /\ y_test' = targets[Head(todo)].y_test
    /\ thresh_range' = ArangeGrid
    /\ best_thresh' = DefaultThresh
    /\ best_score' = IF best_score = Unset THEN Zero ELSE best_score
    /\ idx' = 1
    /\ pc' = "scan"
    /\ UNCHANGED <<t, preds, rec, prec, score, final_preds, acc, f1, thresholds,
                   metrics, models, targets, response>>
    /\ UNCHANGED <<request, fetch_called>>
    /\ UNCHANGED otherVars

\* mutant: the class-diversity test of line 343 does not guard the training
BeginCalibrationNoDiversityCheck ==
    /\ AtLoopHead
    /\ todo # <<>>
    /\ ~targets[Head(todo)].raises
    /\ condition_name' = Head(todo)
    /\ todo' = Tail(todo)
    /\ probs' = targets[Head(todo)].probs
    /\ y_test' = targets[Head(todo)].y_test
    /\ thresh_range' = ArangeGrid
    /\ best_thresh' = DefaultThresh
    /\ best_score' = Zero
    /\ idx' = 1
    /\ pc' = "scan"
    /\ UNCHANGED <<t, preds, rec, prec, score, final_preds, acc, f1, thresholds,
                   metrics, models, targets, response>>
    /\ UNCHANGED <<request, fetch_called>>
    /\ UNCHANGED otherVars

\* lines 339-385: split, SMOTE, fit, predict_proba, and the scan's start
BeginCalibration ==
    /\ AtLoopHead
    /\ todo # <<>>
    /\ targets[Head(todo)].diverse
    /\ ~targets[Head(todo)].raises
    /\ condition_name' = Head(todo)
    /\ todo' = Tail(todo)
    /\ probs' = targets[Head(todo)].probs
    /\ y_test' = targets[Head(todo)].y_test
    /\ thresh_range' = ArangeGrid
    /\ best_thresh' = DefaultThresh
    /\ best_score' = Zero
    /\ idx' = 1
    /\ pc' = "scan"
    /\ UNCHANGED <<t, preds, rec, prec, score, final_preds, acc, f1, thresholds,
                   metrics, models, targets, response>>
    /\ UNCHANGED <<request, fetch_called>>
    /\ UNCHANGED otherVars

\* lines 419-479: the loop is over; best_thresh is rebound to the rain
\* threshold, the plotting loop rebinds condition_name until it ends or raises
TrainingComplete ==
    /\ AtLoopHead
    /\ todo = <<>>
    /\ best_thresh' = IF "rain" \in DOMAIN thresholds THEN thresholds["rain"]
                      ELSE DefaultThresh
    /\ condition_name' \in {condition_name} \cup DOMAIN targets
    /\ pc' = "trained"
    /\ UNCHANGED <<probs, y_test, thresh_range, idx, t, preds, rec, prec, score,
                   best_score, final_preds, acc, f1, thresholds, metrics, models,
                   targets, todo, response>>
    /\ UNCHANGED <<request, fetch_called>>
    /\ UNCHANGED otherVars

\* GET /
read_root ==
    /\ pc = "trained"
    /\ request' = [endpoint |-> "/"]
    /\ fetch_called' = FALSE
    /\ response' = [endpoint |-> "/",
                    models_trained |-> Cardinality(DOMAIN models),
                    model_metrics |-> metrics]
    /\ UNCHANGED <<condition_name, probs, y_test, thresh_range, idx, t, preds,
                   rec, prec, score, best_thresh, best_score, final_preds, acc,
                   f1, thresholds, metrics, models, targets, todo, pc>>
    /\ UNCHANGED otherVars

PredictedStrict(prob, thresh) == IF prob > thresh THEN 1 ELSE 0   \* mutant
\* prediction = int(prob >= thresh)
Predicted(prob, thresh) == IF prob >= thresh THEN 1 ELSE 0

\* mutant: the distance is not capped at 1
ConfidenceUnclamped(prob, thresh) ==
    <<IF prob >= thresh THEN prob - thresh ELSE thresh - prob,
      IF thresh >= ConfidenceFloor THEN thresh ELSE ConfidenceFloor>>

\* abs(prob - thresh) / max(thresh, 0.1), then min(confidence, 1.0)
Confidence(prob, thresh) ==
    LET dist == IF prob >= thresh THEN prob - thresh ELSE thresh - prob
        m == IF thresh >= ConfidenceFloor THEN thresh ELSE ConfidenceFloor
    IN  IF dist >= m THEN <<1, 1>> ELSE <<dist, m>>

\* get_season (lines 272-280)
get_season(month) ==
    IF month \in {12, 1, 2} THEN 0
    ELSE IF month \in {3, 4, 5} THEN 1
    ELSE IF month \in {6, 7, 8} THEN 2
    ELSE 3

\* season_names[season_num] is season_names[season_num + 1] here
season_names == <<"Winter", "Spring", "Summer", "Fall">>

\* the rows process_weather_data can return, by what /predict asks of them:
\* the row of the target date, another row of the target month's season, a
\* row of another season
RowKinds == {"target_day", "same_season", "other_season"}

\* what the try block of lines 528-576 meets: datetime(year, month, day)
\* raises, fetch_openweather_point raises, the processing raises after the
\* first assignment, or nothing raises and these rows come back
OwmOutcomes ==
    {[raises |-> "date", rows |-> {}], [raises |-> "fetch", rows |-> {}],
     [raises |-> "process", rows |-> {"target_day"}]}
    \cup {[raises |-> "none", rows |-> R] : R \in SUBSET RowKinds}

EstimatedNames ==
    {"estimated_tavg", "estimated_tmax", "estimated_tmin", "estimated_wind",
     "estimated_humidity", "estimated_heat_index"}

\* mutant: the season's average is preferred to the row of the target date
TryRealDataSeasonFirst(rq) ==
    LET none == [n \in EstimatedNames |-> "unassigned"]
        all(src) == [n \in EstimatedNames |-> src]
    IN  IF rq.owm.raises \in {"date", "fetch"} \/ rq.owm.rows = {}
        THEN [raised |-> TRUE, data_source |-> "unassigned", estimated |-> none]
        ELSE IF rq.owm.raises = "process"
        THEN [raised |-> TRUE, data_source |-> "unassigned",
              estimated |-> [none EXCEPT !["estimated_tavg"] = "row_or_mean"]]
        ELSE IF "same_season" \in rq.owm.rows
        THEN [raised |-> FALSE, data_source |-> "openweathermap_seasonal",
              estimated |-> all("same_season_mean")]
        ELSE IF "target_day" \in rq.owm.rows
        THEN [raised |-> FALSE, data_source |-> "openweathermap_exact",
              estimated |-> all("target_day_row")]
        ELSE [raised |-> FALSE, data_source |-> "openweathermap_average",
              estimated |-> all("all_rows_mean")]

\* the try block of lines 528-576: whether it raises, and what it has
\* assigned to data_source and to the six estimated inputs when it ends
TryRealData(rq) ==
    LET none == [n \in EstimatedNames |-> "unassigned"]
        all(src) == [n \in EstimatedNames |-> src]
    IN  IF rq.owm.raises \in {"date", "fetch"} \/ rq.owm.rows = {}
        THEN [raised |-> TRUE, data_source |-> "unassigned", estimated |-> none]
        ELSE IF rq.owm.raises = "process"
        THEN [raised |-> TRUE, data_source |-> "unassigned",
              estimated |-> [none EXCEPT !["estimated_tavg"] = "row_or_mean"]]
        ELSE IF "target_day" \in rq.owm.rows
        THEN [raised |-> FALSE, data_source |-> "openweathermap_exact",
              estimated |-> all("target_day_row")]
        ELSE IF "same_season" \in rq.owm.rows
        THEN [raised |-> FALSE, data_source |-> "openweathermap_seasonal",
              estimated |-> all("same_season_mean")]
        ELSE [raised |-> FALSE, data_source |-> "openweathermap_average",
              estimated |-> all("all_rows_mean")]

\* mutant: the except clause does not clear use_real_data
UseClimateEstimateOnRequestOnly(rq) == ~rq.use_real_data
\* `if not use_real_data` at line 582, after the except clause of 578-580
UseClimateEstimate(rq) == ~rq.use_real_data \/ TryRealData(rq).raised

\* data_source when the input row is built (line 609)
DataSourceOf(rq) ==
    IF UseClimateEstimate(rq) THEN "climate_estimate"
    ELSE IF rq.use_real_data THEN TryRealData(rq).data_source
    ELSE "unassigned"

\* the six estimated inputs when the input row is built
EstimatedOf(rq) ==
    IF UseClimateEstimate(rq) THEN [n \in EstimatedNames |-> "climate"]
    ELSE IF rq.use_real_data THEN TryRealData(rq).estimated
    ELSE [n \in EstimatedNames |-> "unassigned"]

\* mutant: the fallback record keeps the condition's threshold
WeatherPredictionKeepsThreshold(c, out) ==
    IF out.raised
    THEN [probability |-> 0, predicted |-> 0, confidence |-> Zero,
          threshold |-> thresholds[c]]
    ELSE [probability |-> out.prob,
          predicted |-> Predicted(out.prob, thresholds[c]),
          confidence |-> Confidence(out.prob, thresholds[c]),
          threshold |-> thresholds[c]]

\* the body of `for condition_name, model in models.items()` (lines 626-686)
WeatherPrediction(c, out) ==
    IF out.raised
    THEN [probability |-> 0, predicted |-> 0, confidence |-> Zero,
          threshold |-> DefaultThresh]
    ELSE [probability |-> out.prob,
          predicted |-> Predicted(out.prob, thresholds[c]),
          confidence |-> Confidence(out.prob, thresholds[c]),
          threshold |-> thresholds[c]]

\* lines 689-690
high_risk_conditions(wp) == {c \in DOMAIN wp : wp[c].predicted = 1}

\* the `if ... in high_risk_conditions` chain of lines 696-716, in its order
ComfortPenalties ==
    <<[name |-> "uncomfortable", penalty |-> 40, factor |-> "extreme weather conditions"],
      [name |-> "very_hot", penalty |-> 30, factor |-> "dangerous heat"],
      [name |-> "very_cold", penalty |-> 30, factor |-> "extreme cold"],
      [name |-> "very_wet", penalty |-> 20, factor |-> "heavy precipitation"],
      [name |-> "very_windy", penalty |-> 15, factor |-> "strong winds"],
      [name |-> "very_humid", penalty |-> 15, factor |-> "high humidity"],
      [name |-> "rain", penalty |-> 10, factor |-> "precipitation"]>>

RECURSIVE ComfortAfter(_, _)
\* comfort_score after the first k tests of the chain
ComfortAfter(hr, k) ==
    IF k = 0 THEN 100
    ELSE ComfortAfter(hr, k - 1)
         - (IF ComfortPenalties[k].name \in hr THEN ComfortPenalties[k].penalty ELSE 0)

comfort_score(hr) == ComfortAfter(hr, Len(ComfortPenalties))

RECURSIVE FactorsAfter(_, _)
FactorsAfter(hr, k) ==
    IF k = 0 THEN <<>>
    ELSE FactorsAfter(hr, k - 1)
         \o (IF ComfortPenalties[k].name \in hr THEN <<ComfortPenalties[k].factor>>
             ELSE <<>>)

comfort_factors(hr) == FactorsAfter(hr, Len(ComfortPenalties))

\* mutant: the first level starts above 80
OverallComfortStrict(cs) ==
    IF cs > 80 THEN "very comfortable"
    ELSE IF cs >= 60 THEN "comfortable"
    ELSE IF cs >= 40 THEN "somewhat uncomfortable"
    ELSE IF cs >= 20 THEN "uncomfortable"
    ELSE "very uncomfortable"

\* lines 718-728
overall_comfort(cs) ==
    IF cs >= 80 THEN "very comfortable"
    ELSE IF cs >= 60 THEN "comfortable"
    ELSE IF cs >= 40 THEN "somewhat uncomfortable"
    ELSE IF cs >= 20 THEN "uncomfortable"
    ELSE "very uncomfortable"

\* what /predict returns for a request (lines 730-762)
PredictBody(rq) ==
    LET wp == [c \in DOMAIN models |-> WeatherPrediction(c, rq.out[c])]
        hr == high_risk_conditions(wp)
    IN  [endpoint |-> "/predict",
         weather_conditions |-> wp,
         condition_details |-> {c \in DOMAIN models : ~rq.out[c].raised},
         summary |-> [overall_comfort |-> overall_comfort(comfort_score(hr)),
                      comfort_score |-> comfort_score(hr),
                      comfort_factors |-> comfort_factors(hr),
                      high_risk_conditions |-> hr,
                      season |-> season_names[get_season(rq.month) + 1],
                      data_source |-> DataSourceOf(rq),
                      weather_parameters |-> EstimatedOf(rq)],
         model_performance |-> metrics]

\* what predict_proba does for one condition of a request: it raises, or it
\* yields 1 or a probability at or just below the threshold
PredictOutcomes(thresh) ==
    {[raised |-> TRUE, prob |-> 0]}
    \cup {[raised |-> FALSE, prob |-> p] : p \in {thresh - 1, thresh, 100}}

AtThreshold == [c \in DOMAIN models |-> [raised |-> FALSE, prob |-> thresholds[c]]]

\* requests that differ in the data they meet; month 13 is no date
DataRequests ==
    {[endpoint |-> "/predict", use_real_data |-> u, month |-> mo[1], owm |-> mo[2],
      out |-> AtThreshold] :
        u \in BOOLEAN,
        mo \in ({7} \X OwmOutcomes) \cup {<<13, [raises |-> "date", rows |-> {}]>>}}

\* requests that differ in what predict_proba yields per condition
OutcomeRequests ==
    {[endpoint |-> "/predict", use_real_data |-> FALSE, month |-> 7,
      owm |-> [raises |-> "fetch", rows |-> {}], out |-> f] :
        f \in {g \in [DOMAIN models ->
                        UNION {PredictOutcomes(thresholds[c]) : c \in DOMAIN models}] :
                 \A c \in DOMAIN models : g[c] \in PredictOutcomes(thresholds[c])}}

ServerRequests == DataRequests \cup OutcomeRequests

\* mutant: the fallback threshold of a failed prediction is written back
PredictStoresFallback(rq) ==
    /\ pc = "trained"
    /\ request' = rq
    /\ fetch_called' = (rq.use_real_data /\ rq.owm.raises # "date")
    /\ response' = PredictBody(rq)
    /\ thresholds' = [c \in DOMAIN thresholds |->
                         IF c \in DOMAIN models /\ rq.out[c].raised
                         THEN DefaultThresh ELSE thresholds[c]]
    /\ UNCHANGED <<condition_name, probs, y_test, thresh_range, idx, t, preds,
                   rec, prec, score, best_thresh, best_score, final_preds, acc,
                   f1, metrics, models, targets, todo, pc>>
    /\ UNCHANGED otherVars

\* GET /predict (lines 502-762)
predict(rq) ==
    /\ pc = "trained"
    /\ request' = rq
    /\ fetch_called' = (rq.use_real_data /\ rq.owm.raises # "date")
    /\ response' = PredictBody(rq)
    /\ UNCHANGED <<condition_name, probs, y_test, thresh_range, idx, t, preds,
                   rec, prec, score, best_thresh, best_score, final_preds, acc,
                   f1, thresholds, metrics, models, targets, todo, pc>>
    /\ UNCHANGED otherVars

\* GET /model-info
model_info ==
    /\ pc = "trained"
    /\ request' = [endpoint |-> "/model-info"]
    /\ fetch_called' = FALSE
    /\ response' = [endpoint |-> "/model-info",
                    weather_conditions |-> DOMAIN models,
                    models |-> [c \in DOMAIN models |->
                                   [metrics |-> metrics[c],
                                    threshold |-> thresholds[c],
                                    trained |-> TRUE]]]
    /\ UNCHANGED <<condition_name, probs, y_test, thresh_range, idx, t, preds,
                   rec, prec, score, best_thresh, best_score, final_preds, acc,
                   f1, thresholds, metrics, models, targets, todo, pc>>
    /\ UNCHANGED otherVars

\* GET /conditions
get_conditions ==
    /\ pc = "trained"
    /\ request' = [endpoint |-> "/conditions"]
    /\ fetch_called' = FALSE
    /\ response' = [endpoint |-> "/conditions", model_performance |-> metrics]
    /\ UNCHANGED <<condition_name, probs, y_test, thresh_range, idx, t, preds,
                   rec, prec, score, best_thresh, best_score, final_preds, acc,
                   f1, thresholds, metrics, models, targets, todo, pc>>
    /\ UNCHANGED otherVars

\* GET /fetch-openweather-data: the statistics of the fetched data, or 500
fetch_openweather_data ==
    /\ pc = "trained"
    /\ request' = [endpoint |-> "/fetch-openweather-data"]
    /\ fetch_called' = TRUE
    /\ \E status \in {"success", "500"} :
          response' = [endpoint |-> "/fetch-openweather-data", status |-> status]
    /\ UNCHANGED <<condition_name, probs, y_test, thresh_range, idx, t, preds,
                   rec, prec, score, best_thresh, best_score, final_preds, acc,
                   f1, thresholds, metrics, models, targets, todo, pc>>
    /\ UNCHANGED otherVars

NextServer ==
    \/ SkipCondition
    \/ TrainingRaises
    \/ BeginCalibration
    \/ ScanStep
    \/ FinalMetrics
    \/ StoreResults
    \/ TrainingComplete
    \/ read_root
    \/ \E rq \in ServerRequests : predict(rq)
    \/ model_info
    \/ get_conditions
    \/ fetch_openweather_data

SpecServer == InitServer /\ [][NextServer]_vars

-----------------------------------------------------------------------------
\* The server with all seven conditions trained, for the comfort summary of
\* /predict.  Every label series has both classes and trains without error.

AllConditions == {ConditionNames[i] : i \in DOMAIN ConditionNames}

InitPredict ==
    /\ \E e \in TrainEvalSets :
          targets = [c \in AllConditions |->
                        [diverse |-> TRUE, raises |-> FALSE,
                         probs |-> e[1], y_test |-> e[2]]]
    /\ todo = ConditionNames
    /\ models = <<>>
    /\ thresholds = <<>>
    /\ metrics = <<>>
    /\ condition_name = ""
    /\ probs = Unset
    /\ y_test = Unset
    /\ thresh_range = Unset
    /\ idx = 1
    /\ t = -1
    /\ preds = Unset
    /\ rec = Unset
    /\ prec = Unset
    /\ score = Unset
    /\ best_thresh = Unset
    /\ best_score = Unset
    /\ final_preds = Unset
    /\ acc = Unset
    /\ f1 = Unset
    /\ request = <<>>
    /\ fetch_called = FALSE
    /\ response = <<>>
    /\ pc = "loop"
    /\ OthersIdle

\* requests whose probabilities sit at or just below each condition's
\* threshold, in every combination
ComfortRequests ==
    {[endpoint |-> "/predict", use_real_data |-> FALSE, month |-> 7,
      owm |-> [raises |-> "fetch", rows |-> {}], out |-> f] :
        f \in [DOMAIN models ->
                  {[raised |-> FALSE, prob |-> p] :
                      p \in {thresholds[c] : c \in DOMAIN models}
                            \cup {thresholds[c] - 1 : c \in DOMAIN models}}]}

NextPredict ==
    \/ BeginCalibration
    \/ ScanStep
    \/ FinalMetrics
    \/ StoreResults
    \/ TrainingComplete
    \/ \E rq \in ComfortRequests : predict(rq)

SpecPredict == InitPredict /\ [][NextPredict]_vars

-----------------------------------------------------------------------------
\* fetch_openweather_point (lines 138-182).  Dates are day numbers with
\* today = datetime.utcnow().date() as day 0.

MaxBack == 7      \* earliest start_date and end_date, in days before today
MaxAhead == 2     \* latest start_date and end_date, in days after today
HistoryDays == 5  \* timedelta(days=5) of line 149
ForecastDays == 8 \* the daily forecast covers today and the 7 days after it

today == 0

POWER_PARAMS == {"T2M_MAX", "T2M_MIN", "T2M", "PRECTOTCORR", "WS2M", "RH2M"}

Max2(a, b) == IF a >= b THEN a ELSE b
Min2(a, b) == IF a <= b THEN a ELSE b

\* line 149 and line 150
hist_start == Max2(start_date, today - HistoryDays)
hist_end == Min2(end_date, today - 1)

\* the server is not started
ServerIdle ==
    /\ targets = <<>>
    /\ todo = <<>>
    /\ models = <<>>
    /\ thresholds = <<>>
    /\ metrics = <<>>
    /\ condition_name = ""
    /\ probs = Unset
    /\ y_test = Unset
    /\ thresh_range = Unset
    /\ idx = 1
    /\ t = -1
    /\ preds = Unset
    /\ rec = Unset
    /\ prec = Unset
    /\ score = Unset
    /\ best_thresh = Unset
    /\ best_score = Unset
    /\ final_preds = Unset
    /\ acc = Unset
    /\ f1 = Unset
    /\ request = <<>>
    /\ fetch_called = FALSE
    /\ response = <<>>
    /\ pc = "idle"

\* the call: lines 145-152
InitFetch ==
    /\ ServerIdle
    /\ TargetsIdle
    /\ SeasonIdle
    /\ PreprocessorIdle
    /\ OWM_API_KEY \in BOOLEAN
    /\ start_date \in (today - MaxBack)..(today + MaxAhead)
    /\ end_date \in (today - MaxBack)..(today + MaxAhead)
    /\ params_list \in {POWER_PARAMS, {"T2M", "ALLSKY_SFC_SW_DWN"}}
    /\ d = hist_start
    /\ parts = <<>>
    /\ requested = <<>>
    /\ forecast = "not_requested"
    /\ fetched = <<>>
    /\ fetch_pc = "history"

\* lines 153-155, 158: _owm_timemachine_daily returns a frame for day d
HistoricalDay ==
    /\ fetch_pc = "history"
    /\ d <= hist_end
    /\ OWM_API_KEY
    /\ requested' = Append(requested, d)
    /\ parts' = Append(parts, [days |-> {d}, columns |-> POWER_PARAMS])
    /\ d' = d + 1
    /\ UNCHANGED <<OWM_API_KEY, start_date, end_date, params_list, forecast,
                   fetched, fetch_pc>>
    /\ UNCHANGED <<serverVars, rowVars, seasonVars, preprocessorVars>>

\* mutant: a day that fails ends the loop
HistoricalDayFailsBreaks ==
    /\ fetch_pc = "history"
    /\ d <= hist_end
    /\ requested' = Append(requested, d)
    /\ d' = hist_end + 1
    /\ UNCHANGED <<OWM_API_KEY, start_date, end_date, params_list, parts,
                   forecast, fetched, fetch_pc>>
    /\ UNCHANGED <<serverVars, rowVars, seasonVars, preprocessorVars>>

\* lines 153-158: _owm_timemachine_daily raises (no key, lines 91-92; the
\* request fails or its answer cannot be read) and the except prints
HistoricalDayFails ==
    /\ fetch_pc = "history"
    /\ d <= hist_end
    /\ requested' = Append(requested, d)
    /\ d' = d + 1
    /\ UNCHANGED <<OWM_API_KEY, start_date, end_date, params_list, parts,
                   forecast, fetched, fetch_pc>>
    /\ UNCHANGED <<serverVars, rowVars, seasonVars, preprocessorVars>>

\* line 153: the while condition is false
HistoryDone ==
    /\ fetch_pc = "history"
    /\ d > hist_end
    /\ fetch_pc' = "forecast"
    /\ UNCHANGED <<OWM_API_KEY, start_date, end_date, params_list, d, parts,
                   requested, forecast, fetched>>
    /\ UNCHANGED <<serverVars, rowVars, seasonVars, preprocessorVars>>

\* line 161: end_date is before today
NoForecast ==
    /\ fetch_pc = "forecast"
    /\ end_date < today
    /\ fetch_pc' = "collect"
    /\ UNCHANGED <<OWM_API_KEY, start_date, end_date, params_list, d, parts,
                   requested, forecast, fetched>>
    /\ UNCHANGED <<serverVars, rowVars, seasonVars, preprocessorVars>>

\* the days a forecast answer holds: all of them, only today, or all but today
ForecastAnswers ==
    {today..(today + ForecastDays - 1), {today}, (today + 1)..(today + ForecastDays - 1)}

\* lines 161-167: the forecast is filtered to [max(start_date, today), end_date]
\* and appended unless the filter leaves nothing.  A daily list without
\* entries gives a frame without a date index, and line 165 raises on it.
ForecastReturns ==
    /\ fetch_pc = "forecast"
    /\ end_date >= today
    /\ OWM_API_KEY
    /\ \E answer \in ForecastAnswers :
          LET fdf == {x \in answer : x >= Max2(start_date, today) /\ x <= end_date}
          IN  IF fdf # {}
              THEN /\ parts' = Append(parts, [days |-> fdf, columns |-> POWER_PARAMS])
                   /\ forecast' = "rows"
              ELSE /\ parts' = parts
                   /\ forecast' = "empty"
    /\ fetch_pc' = "collect"
    /\ UNCHANGED <<OWM_API_KEY, start_date, end_date, params_list, d, requested,
                   fetched>>
    /\ UNCHANGED <<serverVars, rowVars, seasonVars, preprocessorVars>>

\* lines 162-169: _owm_onecall_daily_forecast or the filter raises
ForecastFails ==
    /\ fetch_pc = "forecast"
    /\ end_date >= today
    /\ forecast' = "raised"
    /\ fetch_pc' = "collect"
    /\ UNCHANGED <<OWM_API_KEY, start_date, end_date, params_list, d, parts,
                   requested, fetched>>
    /\ UNCHANGED <<serverVars, rowVars, seasonVars, preprocessorVars>>

RECURSIVE ConcatDays(_)
ConcatDays(ps) == IF ps = <<>> THEN {} ELSE Head(ps).days \cup ConcatDays(Tail(ps))

RECURSIVE ConcatColumns(_)
ConcatColumns(ps) ==
    IF ps = <<>> THEN {} ELSE Head(ps).columns \cup ConcatColumns(Tail(ps))

\* lines 171-182: HTTP 500 without parts; else the concatenation, with a
\* column added for every name of params_list it lacks
Collect ==
    /\ fetch_pc = "collect"
    /\ fetched' = IF parts = <<>>
                  THEN [raised |-> TRUE, status_code |-> 500,
                        days |-> {}, columns |-> {}]
                  ELSE [raised |-> FALSE, status_code |-> 0,
                        days |-> ConcatDays(parts),
                        columns |-> ConcatColumns(parts) \cup params_list]
    /\ fetch_pc' = "done"
    /\ UNCHANGED <<OWM_API_KEY, start_date, end_date, params_list, d, parts,
                   requested, forecast>>
    /\ UNCHANGED <<serverVars, rowVars, seasonVars, preprocessorVars>>

NextFetch ==
    \/ HistoricalDay
    \/ HistoricalDayFails
    \/ HistoryDone
    \/ NoForecast
    \/ ForecastReturns
    \/ ForecastFails
    \/ Collect

\* the function runs to its end: no step waits for anything but the answer
\* of a request with a timeout (lines 66, 108)
SpecFetch == InitFetch /\ [][NextFetch]_vars /\ WF_vars(NextFetch)

-----------------------------------------------------------------------------
\* create_enhanced_weather_targets (lines 253-269) on one row of df.
\* A cell is <<v>> for the number v and <<>> for NaN; PRCP is in hundredths
\* of an inch, the other columns in whole units.

NaN == <<>>

\* lines 185-195
WEATHER_THRESHOLDS ==
    [very_hot |-> 95, very_cold |-> 32, very_wet |-> 50, very_windy |-> 25,
     very_humid |-> 85, uncomfortable_heat |-> 104, uncomfortable_cold |-> 14,
     high_temp_variation |-> 36, heat_index_dangerous |-> 105]

\* comparisons of a cell with a number; every comparison with NaN is False
CellGt(x, v) == x # NaN /\ x[1] > v
CellGe(x, v) == x # NaN /\ x[1] >= v
CellLe(x, v) == x # NaN /\ x[1] <= v
\* a difference with NaN is NaN
CellMinus(x, y) == IF x = NaN \/ y = NaN THEN NaN ELSE <<x[1] - y[1]>>

\* .astype(int) of a boolean
AsInt(b) == IF b THEN 1 ELSE 0

\* mutant: the temperature range does not count
TargetsWithoutVariation(row) ==
    [rain |-> AsInt(CellGt(row.PRCP, 0)),
     very_hot |-> AsInt(CellGe(row.TMAX, WEATHER_THRESHOLDS.very_hot)),
     very_cold |-> AsInt(CellLe(row.TMIN, WEATHER_THRESHOLDS.very_cold)),
     very_wet |-> AsInt(CellGe(row.PRCP, WEATHER_THRESHOLDS.very_wet)),
     very_windy |-> AsInt(CellGe(row.WIND_SPEED, WEATHER_THRESHOLDS.very_windy)),
     very_humid |-> AsInt(CellGe(row.HUMIDITY, WEATHER_THRESHOLDS.very_humid)),
     uncomfortable |->
         AsInt(\/ CellGe(row.TMAX, WEATHER_THRESHOLDS.uncomfortable_heat)
               \/ CellLe(row.TMIN, WEATHER_THRESHOLDS.uncomfortable_cold)
               \/ CellGe(row.HEAT_INDEX, WEATHER_THRESHOLDS.heat_index_dangerous))]

create_enhanced_weather_targets(row) ==
    [rain |-> AsInt(CellGt(row.PRCP, 0)),
     very_hot |-> AsInt(CellGe(row.TMAX, WEATHER_THRESHOLDS.very_hot)),
     very_cold |-> AsInt(CellLe(row.TMIN, WEATHER_THRESHOLDS.very_cold)),
     very_wet |-> AsInt(CellGe(row.PRCP, WEATHER_THRESHOLDS.very_wet)),
     very_windy |-> AsInt(CellGe(row.WIND_SPEED, WEATHER_THRESHOLDS.very_windy)),
     very_humid |-> AsInt(CellGe(row.HUMIDITY, WEATHER_THRESHOLDS.very_humid)),
     uncomfortable |->
         AsInt(\/ CellGe(row.TMAX, WEATHER_THRESHOLDS.uncomfortable_heat)
               \/ CellLe(row.TMIN, WEATHER_THRESHOLDS.uncomfortable_cold)
               \/ CellGe(CellMinus(row.TMAX, row.TMIN),
                         WEATHER_THRESHOLDS.high_temp_variation)
               \/ CellGe(row.HEAT_INDEX, WEATHER_THRESHOLDS.heat_index_dangerous))]

\* cells on both sides of every threshold, and NaN
PrcpCells == {NaN, <<0>>, <<1>>, <<49>>, <<50>>}
TmaxCells == {NaN, <<50>>, <<95>>, <<103>>, <<104>>}
TminCells == {NaN, <<14>>, <<15>>, <<32>>, <<33>>, <<59>>, <<60>>}
WindCells == {<<24>>, <<25>>}
HumidityCells == {<<84>>, <<85>>}
HeatIndexCells == {NaN, <<104>>, <<105>>}

Rows ==
    [PRCP : PrcpCells, TMAX : TmaxCells, TMIN : TminCells,
     WIND_SPEED : WindCells, HUMIDITY : HumidityCells,
     HEAT_INDEX : HeatIndexCells]

InitTargets ==
    /\ ServerIdle
    /\ FetchIdle
    /\ SeasonIdle
    /\ PreprocessorIdle
    /\ df_row \in Rows
    /\ row_targets = <<>>

\* line 321, for the row df_row
LabelRow ==
    /\ df_row # <<>>
    /\ row_targets = <<>>
    /\ row_targets' = create_enhanced_weather_targets(df_row)
    /\ UNCHANGED <<df_row, serverVars, fetchVars, seasonVars, preprocessorVars>>

NextTargets == LabelRow

SpecTargets == InitTargets /\ [][NextTargets]_vars

-----------------------------------------------------------------------------
\* get_season (api_server.py 272-280) and WeatherDataPreprocessor._get_season
\* (preprocess_data.py 73-84) on the same month.

MonthSpan == 60   \* months from 1 - MonthSpan to 12 + MonthSpan are tried

\* mutant: September counts as summer
PreprocessorSeasonLateSummer(m) ==
    IF m \in {12, 1, 2} THEN "Winter"
    ELSE IF m \in {3, 4, 5} THEN "Spring"
    ELSE IF m \in {6, 7, 8, 9} THEN "Summer"
    ELSE "Fall"

\* preprocess_data.py 73-84
preprocessor_get_season(m) ==
    IF m \in {12, 1, 2} THEN "Winter"
    ELSE IF m \in {3, 4, 5} THEN "Spring"
    ELSE IF m \in {6, 7, 8} THEN "Summer"
    ELSE "Fall"

InitSeason ==
    /\ ServerIdle
    /\ FetchIdle
    /\ TargetsIdle
    /\ PreprocessorIdle
    /\ MONTH \in (1 - MonthSpan)..(12 + MonthSpan)
    /\ season = <<>>

\* both functions are applied to MONTH
ApplySeason ==
    /\ season = <<>>
    /\ season' = [get_season |-> get_season(MONTH),
                  preprocessor |-> preprocessor_get_season(MONTH)]
    /\ UNCHANGED <<MONTH, serverVars, fetchVars, rowVars, preprocessorVars>>

NextSeason == ApplySeason

SpecSeason == InitSeason /\ [][NextSeason]_vars

-----------------------------------------------------------------------------
\* WeatherDataPreprocessor (preprocess_data.py).  self.df is modelled by its
\* set of columns; the columns a loop adds for each window or lag are one
\* name with * for the number.  An object state o has the fields df,
\* feature_sets, files, ran (the methods that began to run in this call) and
\* raised.

MaxCalls == 3   \* calls made on one object

\* columns the CSV file can have: the station export, one without DATE, one
\* without TAVG and with a column the preprocessor does not know
CsvColumns ==
    {{"STATION", "NAME", "DATE", "PRCP", "TAVG", "TMAX", "TMIN"},
     {"STATION", "NAME", "PRCP", "TAVG", "TMAX", "TMIN"},
     {"STATION", "NAME", "DATE", "PRCP", "TMAX", "TMIN", "SNOW"}}

Enter(o, name) == [o EXCEPT !.ran = Append(@, name)]
Raise(o) == [o EXCEPT !.raised = TRUE]
AddColumns(o, cols) == [o EXCEPT !.df = @ \cup cols]
WriteFile(o, name, cols) ==
    [o EXCEPT !.files = [f \in DOMAIN @ \cup {name} |->
                            IF f = name THEN cols ELSE @[f]]]
\* the next statement of a method: skipped once an exception is on its way
Then(o, Method(_)) == IF o.raised THEN o ELSE Method(o)

\* lines 27-40
InitialInspection(o) == Enter(o, "initial_inspection")

\* lines 42-71: self.df['DATE'] raises KeyError without the column
ParseDates(o) ==
    LET e == Enter(o, "parse_dates")
    IN  IF "DATE" \notin e.df THEN Raise(e)
        ELSE AddColumns(e, {"YEAR", "MONTH", "DAY", "DAY_OF_YEAR", "WEEK_OF_YEAR",
                            "QUARTER", "MONTH_SIN", "MONTH_COS", "DAY_OF_YEAR_SIN",
                            "DAY_OF_YEAR_COS", "SEASON"})

\* lines 86-107: values change, columns do not
HandleMissingValues(o) == Enter(o, "handle_missing_values")

\* lines 109-164
CreateDerivedFeatures(o) ==
    LET e == Enter(o, "create_derived_features")
        temp == IF {"TMAX", "TMIN"} \subseteq e.df THEN {"TEMP_RANGE", "TAVG"} ELSE {}
        prcp == IF "PRCP" \in e.df
                THEN {"IS_RAINY", "PRCP_INTENSITY", "PRCP_SUM_*D", "PRCP_MA_*D",
                      "PRCP_LAG_*D"}
                ELSE {}
        tavg == IF "TAVG" \in e.df \cup temp
                THEN {"TAVG_MA_*D", "TAVG_STD_*D", "TAVG_LAG_*D"}
                ELSE {}
    IN  AddColumns(e, temp \cup prcp \cup tavg)

\* lines 166-196: values are clipped, columns do not change
DetectAndHandleOutliers(o) == Enter(o, "detect_and_handle_outliers")

\* lines 198-226
CreateTargetVariables(o) ==
    LET e == Enter(o, "create_target_variables")
    IN  AddColumns(e,
            (IF "PRCP" \in e.df
             THEN {"TARGET_RAINFALL_NEXT_DAY", "TARGET_WILL_RAIN_NEXT_DAY",
                   "TARGET_RAINFALL_*D"}
             ELSE {})
            \cup (IF "TAVG" \in e.df
                  THEN {"TARGET_TEMP_NEXT_DAY", "TARGET_TEMP_*D"} ELSE {})
            \cup (IF "TMAX" \in e.df THEN {"TARGET_TMAX_NEXT_DAY"} ELSE {})
            \cup (IF "TMIN" \in e.df THEN {"TARGET_TMIN_NEXT_DAY"} ELSE {}))

\* lines 228-244
EncodeCategoricalFeatures(o) ==
    LET e == Enter(o, "encode_categorical_features")
    IN  AddColumns(e,
            (IF "SEASON" \in e.df THEN {"SEASON_*"} ELSE {})
            \cup (IF "PRCP_INTENSITY" \in e.df THEN {"PRCP_INTENSITY_*"} ELSE {}))

RollingColumns ==
    {"TAVG_MA_*D", "TAVG_STD_*D", "PRCP_SUM_*D", "PRCP_MA_*D"}
LagColumns == {"TAVG_LAG_*D", "PRCP_LAG_*D"}

\* lines 246-285: the scalers raise on a frame without columns
NormalizeFeatures(o) ==
    LET e == Enter(o, "normalize_features")
        numerical_features ==
            e.df \cap ({"TAVG", "TMAX", "TMIN", "PRCP", "TEMP_RANGE"}
                       \cup RollingColumns \cup LagColumns)
    IN  IF numerical_features = {} THEN Raise(e)
        ELSE AddColumns(e, {"*_STANDARDIZED", "*_NORMALIZED"})

\* lines 287-320: the only assignment of self.feature_sets (line 309)
CreateFeatureSets(o) ==
    LET e == Enter(o, "create_feature_sets")
        temporal_features ==
            e.df \cap {"YEAR", "MONTH", "DAY", "DAY_OF_YEAR", "WEEK_OF_YEAR",
                       "QUARTER", "MONTH_SIN", "MONTH_COS", "DAY_OF_YEAR_SIN",
                       "DAY_OF_YEAR_COS", "SEASON", "SEASON_*"}
        basic_weather_features ==
            e.df \cap {"TAVG", "TMAX", "TMIN", "PRCP", "TEMP_RANGE", "IS_RAINY"}
        rolling_features == e.df \cap RollingColumns
        lag_features == e.df \cap LagColumns
        normalized_features == e.df \cap {"*_STANDARDIZED", "*_NORMALIZED"}
    IN  [e EXCEPT !.feature_sets =
            [temporal |-> temporal_features,
             basic_weather |-> basic_weather_features,
             rolling |-> rolling_features,
             lag |-> lag_features,
             normalized |-> normalized_features,
             all_features |-> temporal_features \cup basic_weather_features
                              \cup rolling_features \cup lag_features]]

\* lines 340-436: the file is open when line 409 reads self.feature_sets,
\* which raises AttributeError while the attribute is missing
SaveDataDictionary(o) ==
    LET e == WriteFile(Enter(o, "_save_data_dictionary"), "data/data_dictionary.txt", {})
    IN  IF e.feature_sets = Unset THEN Raise(e) ELSE e

\* lines 322-338
SaveProcessedData(o) ==
    LET e == Enter(o, "save_processed_data")
    IN  SaveDataDictionary(WriteFile(e, "data/weather_processed_ml_ready.csv", e.df))

basic_columns ==
    {"STATION", "NAME", "DATE", "YEAR", "MONTH", "DAY", "PRCP", "TAVG", "TMAX", "TMIN"}

\* lines 438-470
SaveBasicData(o) ==
    LET e == Enter(o, "save_basic_data")
    IN  WriteFile(e, "data/weather_cleaned.csv", e.df \cap basic_columns)

\* lines 472-493
GenerateBasicSummary(o) == Enter(o, "generate_basic_summary")

\* lines 496-535: line 507 reads self.feature_sets
GenerateSummaryReport(o) ==
    LET e == Enter(o, "generate_summary_report")
    IN  IF e.feature_sets = Unset THEN Raise(e) ELSE e

\* mutant: line 556 is not a comment
RunFullWithFeatureSets(o) ==
    LET e == Enter(o, "run_full_preprocessing")
        a == Then(e, InitialInspection)
        b == Then(a, ParseDates)
        c == Then(b, HandleMissingValues)
        f == Then(c, CreateFeatureSets)
        g == Then(f, SaveBasicData)
    IN  Then(g, GenerateBasicSummary)

\* lines 538-558
RunFullPreprocessing(o) ==
    LET e == Enter(o, "run_full_preprocessing")
        a == Then(e, InitialInspection)
        b == Then(a, ParseDates)
        c == Then(b, HandleMissingValues)
        g == Then(c, SaveBasicData)
    IN  Then(g, GenerateBasicSummary)

\* WeatherDataPreprocessor(csv_path), lines 19-25
InitPreprocessor ==
    /\ ServerIdle
    /\ FetchIdle
    /\ TargetsIdle
    /\ SeasonIdle
    /\ df \in CsvColumns
    /\ feature_sets = Unset
    /\ files = <<>>
    /\ executed = <<>>
    /\ last = <<>>

CallsMade == IF last = <<>> THEN 0 ELSE last.number

\* the object before a call
Self == [df |-> df, feature_sets |-> feature_sets, files |-> files,
         ran |-> <<>>, raised |-> FALSE]

\* a call from outside that leaves the object as o
Called(name, o) ==
    /\ CallsMade < MaxCalls
    /\ df' = o.df
    /\ feature_sets' = o.feature_sets
    /\ files' = o.files
    /\ executed' = executed \o o.ran
    /\ last' = [method |-> name, ran |-> o.ran, raised |-> o.raised,
                number |-> CallsMade + 1]
    /\ UNCHANGED <<serverVars, fetchVars, rowVars, seasonVars>>

initial_inspection == Called("initial_inspection", InitialInspection(Self))
parse_dates == Called("parse_dates", ParseDates(Self))
handle_missing_values == Called("handle_missing_values", HandleMissingValues(Self))
create_derived_features == Called("create_derived_features", CreateDerivedFeatures(Self))
detect_and_handle_outliers ==
    Called("detect_and_handle_outliers", DetectAndHandleOutliers(Self))
create_target_variables == Called("create_target_variables", CreateTargetVariables(Self))
encode_categorical_features ==
    Called("encode_categorical_features", EncodeCategoricalFeatures(Self))
normalize_features == Called("normalize_features", NormalizeFeatures(Self))
create_feature_sets == Called("create_feature_sets", CreateFeatureSets(Self))
save_processed_data == Called("save_processed_data", SaveProcessedData(Self))
save_basic_data == Called("save_basic_data", SaveBasicData(Self))
generate_basic_summary == Called("generate_basic_summary", GenerateBasicSummary(Self))
generate_summary_report == Called("generate_summary_report", GenerateSummaryReport(Self))
run_full_preprocessing == Called("run_full_preprocessing", RunFullPreprocessing(Self))

NextPreprocessor ==
    \/ initial_inspection
    \/ parse_dates
    \/ handle_missing_values
    \/ create_derived_features
    \/ detect_and_handle_outliers
    \/ create_target_variables
    \/ encode_categorical_features
    \/ normalize_features
    \/ create_feature_sets
    \/ save_processed_data
    \/ save_basic_data
    \/ generate_basic_summary
    \/ generate_summary_report
    \/ run_full_preprocessing

SpecPreprocessor == InitPreprocessor /\ [][NextPreprocessor]_vars

-----------------------------------------------------------------------------
(* Vocabulary of the properties *)

Range(s) == {s[i] : i \in DOMAIN s}
Returned == thresholds[condition_name]
Result == metrics[condition_name]

IsZero(f) == f[2] > 0 /\ f[1] = 0
IsOne(f) == f[2] > 0 /\ f[1] = f[2]

PredPos(th) == {i \in DOMAIN probs : probs[i] >= th}
ActPos == {i \in DOMAIN y_test : y_test[i] = 1}
AllZero == ActPos = {}
AllOne == ActPos = DOMAIN y_test

\* a threshold is eligible when its predictions hold both classes
EligibleAt(th) == PredPos(th) # {} /\ PredPos(th) # DOMAIN probs

RecallAt(th) ==
    IF ActPos = {} THEN Zero
    ELSE <<Cardinality(PredPos(th) \cap ActPos), Cardinality(ActPos)>>

PrecisionAt(th) ==
    IF PredPos(th) = {} THEN Zero
    ELSE <<Cardinality(PredPos(th) \cap ActPos), Cardinality(PredPos(th))>>

\* 0.6 * recall + 0.4 * precision, in tenths
ScoreAt(th) ==
    LET r == RecallAt(th)
        q == PrecisionAt(th)
    IN  <<6 * r[1] * q[2] + 4 * q[1] * r[2], 10 * r[2] * q[2]>>

EligibleIdx == {j \in DOMAIN thresh_range : EligibleAt(thresh_range[j])}
SomePositive ==
    \E j \in EligibleIdx : FracGt(ScoreAt(thresh_range[j]), Zero)

\* indices of the eligible thresholds that attain the best score
EligibleScores == {ScoreAt(thresh_range[j]) : j \in EligibleIdx}
BestIdx ==
    LET scores == EligibleScores
        best == CHOOSE s \in scores : \A z \in scores : FracGe(s, z)
    IN  IF scores = {} THEN {}
        ELSE {j \in EligibleIdx : FracEq(ScoreAt(thresh_range[j]), best)}
MinOf(S) == CHOOSE x \in S : \A z \in S : x <= z

-----------------------------------------------------------------------------
C2_Returned_Score_Is_Maximal ==
    (pc = "done" /\ SomePositive) =>
        /\ EligibleAt(Returned)
        /\ \A j \in EligibleIdx : FracGe(ScoreAt(Returned), ScoreAt(thresh_range[j]))

C2_Witness ==
    /\ pc = "done"
    /\ \E i, j, k \in EligibleIdx :
          /\ i < j /\ j < k
          /\ Returned = thresh_range[j]
          /\ FracGt(ScoreAt(thresh_range[i]), Zero)
          /\ FracGt(ScoreAt(thresh_range[j]), ScoreAt(thresh_range[i]))
          /\ FracGt(ScoreAt(thresh_range[j]), ScoreAt(thresh_range[k]))
          /\ FracGt(ScoreAt(thresh_range[k]), Zero)

\* C3 (as stated): when two or more eligible thresholds attain the same best
\* score, the lowest of them is returned.
C3_Original ==
    (pc = "done" /\ Cardinality(BestIdx) >= 2) =>
        Returned = thresh_range[MinOf(BestIdx)]

\* C3 (amended): when two or more eligible thresholds attain the same best
\* score and that score is above 0, the lowest of them is returned.
C3_Lowest_Tied_Threshold_Wins ==
    (pc = "done" /\ Cardinality(BestIdx) >= 2 /\ SomePositive) =>
        Returned = thresh_range[MinOf(BestIdx)]

C3_Witness ==
    /\ pc = "done"
    /\ Cardinality(BestIdx) >= 2
    /\ SomePositive
    /\ MinOf(BestIdx) > MinOf(EligibleIdx)
    /\ Returned = thresh_range[MinOf(BestIdx)]

\* C4: a grid threshold whose predictions are all 0 or all 1 is never scored and
\* never selected; whenever the scan updates best_thresh, the predictions at the
\* selected threshold contain both classes.
C4_Degenerate_Never_Selected ==
    [][/\ (best_thresh' # best_thresh \/ best_score' # best_score) =>
            /\ best_thresh' = thresh_range[idx]
            /\ PredPos(best_thresh') # {}
            /\ PredPos(best_thresh') # DOMAIN probs
       /\ (pc = "scan" /\ idx <= Len(thresh_range) /\ ~EligibleAt(thresh_range[idx])) =>
            UNCHANGED <<rec, prec, score, best_score, best_thresh>>]_vars

C4_Witness ==
    /\ pc = "scan"
    /\ best_score # Zero
    /\ EligibleAt(best_thresh)
    /\ t > best_thresh
    /\ ~EligibleAt(t)
    /\ preds = [i \in DOMAIN probs |-> 0]

NoFailure == pc = "done" \/ ENABLED Next

C6_All_Negative_Below_Half ==
    (pc = "done" /\ AllZero /\ \A i \in DOMAIN probs : probs[i] < 50) =>
        /\ Returned = 50
        /\ IsZero(Result.precision)
        /\ IsZero(Result.recall)
        /\ IsOne(Result.accuracy)

C6_Witness ==
    /\ pc = "done"
    /\ AllZero
    /\ \A i \in DOMAIN probs : probs[i] < 50
    /\ Len(probs) >= 2
    /\ EligibleIdx # {}
    /\ IsOne(Result.accuracy)

RecallCeiling == <<3, 4>>
WithinCeiling(th) == FracGe(RecallCeiling, RecallAt(th))

Scenario ==
    /\ probs = ScenarioProbs
    /\ y_test = ScenarioLabels
    /\ thresh_range = ScenarioGrid
ScenarioScores == <<(<<4, 5>>), (<<13, 15>>), (<<13, 15>>), (<<1, 2>>), (<<7, 10>>)>>

\* C8: on the end-to-end scenario the per-threshold scores are 4/5, 13/15,
\* 13/15, 1/2, 7/10 and the result is threshold 0.4 with accuracy 4/5,
\* precision 2/3, recall 1 and f1 4/5.
C8_Scenario ==
    Scenario =>
        /\ (pc = "scan" /\ idx > 1) =>
              /\ t = ScenarioGrid[idx - 1]
              /\ score # Unset
              /\ score[2] > 0
              /\ FracEq(score, ScenarioScores[idx - 1])
        /\ pc = "done" =>
              /\ Returned = 40
              /\ FracEq(Result.accuracy, <<4, 5>>)
              /\ FracEq(Result.precision, <<2, 3>>)
              /\ IsOne(Result.recall)
              /\ FracEq(Result.f1_score, <<4, 5>>)

C8_Witness == Scenario /\ pc = "done" /\ Returned = 40

\* C9: the reported accuracy, precision, recall and f1 are those of the
\* predictions (probability >= returned threshold) over the whole evaluation
\* set, also when those predictions hold a single class.
C9_Metrics_At_Returned_Threshold ==
    pc = "done" =>
        LET pp == PredPos(Returned)
            tp == Cardinality(pp \cap ActPos)
            right == {i \in DOMAIN probs : (i \in pp) <=> (i \in ActPos)}
            m == Result
        IN  /\ final_preds = [i \in DOMAIN probs |-> IF i \in pp THEN 1 ELSE 0]
            /\ m.accuracy = <<Cardinality(right), Len(probs)>>
            /\ m.precision = (IF pp = {} THEN Zero ELSE <<tp, Cardinality(pp)>>)
            /\ m.recall = (IF ActPos = {} THEN Zero ELSE <<tp, Cardinality(ActPos)>>)
            /\ m.f1_score = (IF pp \cup ActPos = {} THEN Zero
                             ELSE <<2 * tp, Cardinality(pp) + Cardinality(ActPos)>>)

C9_Witness ==
    /\ pc = "done"
    /\ EligibleIdx # {}
    /\ ~EligibleAt(Returned)
    /\ Returned = DefaultThresh
    /\ Result.accuracy # Unset

WellDefined(f) == f # Unset => (f[2] > 0 /\ f[1] >= 0 /\ f[1] <= f[2])

\* C10: precision is 0 without positive predictions and recall is 0 without
\* positive labels, so every threshold evaluation yields defined values and the
\* scan never stops on a zero denominator.
C10_Zero_Division_Is_Zero ==
    /\ WellDefined(rec) /\ WellDefined(prec) /\ WellDefined(score)
    /\ WellDefined(acc) /\ WellDefined(f1)
    /\ (rec # Unset /\ AllZero) => rec = Zero
    /\ (pc \in {"store", "done"} /\ PredPos(best_thresh) = {}) => prec = Zero
    /\ (pc = "scan" /\ idx <= Len(thresh_range)) =>
          LET p == Binarize(probs, thresh_range[idx])
              q == precision_score(y_test, p)
              r == recall_score(y_test, p)
          IN  /\ WellDefined(q) /\ WellDefined(r)
              /\ PredPos(thresh_range[idx]) = {} => q = Zero
              /\ AllZero => r = Zero

C10_Witness ==
    /\ pc = "done"
    /\ AllZero
    /\ score # Unset
    /\ PredPos(best_thresh) = {}
    /\ Result.precision = Zero
    /\ Result.recall = Zero

-----------------------------------------------------------------------------
(* The recall of the predictions at a threshold, as lines 388-390 compute it *)

\* thresholds the recall is evaluated at: the grid values, the probability
\* values and both ends of [0, 1]
ProbeThresholds == GridValues \cup ProbValues \cup {0, 100}

InitRecall ==
    /\ condition_name = "rain"
    /\ \E e \in EvalSets : probs = e[1] /\ y_test = e[2]
    /\ thresh_range = Unset
    /\ idx = 1
    /\ t = -1
    /\ preds = Unset
    /\ rec = Unset
    /\ prec = Unset
    /\ score = Unset
    /\ best_thresh = DefaultThresh
    /\ best_score = Zero
    /\ final_preds = Unset
    /\ acc = Unset
    /\ f1 = Unset
    /\ thresholds = <<>>
    /\ metrics = <<>>
    /\ models = <<>>
    /\ targets = <<>>
    /\ todo = <<>>
    /\ request = <<>>
    /\ fetch_called = FALSE
    /\ response = <<>>
    /\ pc = "recall"
    /\ OthersIdle

\* preds = (probs >= t).astype(int); rec = recall_score(y_test, preds)
EvalRecall ==
    /\ pc = "recall"
    /\ \E th \in ProbeThresholds :
          /\ t' = th
          /\ preds' = Binarize(probs, th)
          /\ rec' = recall_score(y_test, Binarize(probs, th))
    /\ UNCHANGED <<condition_name, probs, y_test, thresh_range, idx, prec, score,
                   best_thresh, best_score, final_preds, acc, f1, thresholds,
                   metrics, models, targets, todo, response, pc>>
    /\ UNCHANGED <<request, fetch_called>>
    /\ UNCHANGED otherVars

SpecRecall == InitRecall /\ [][EvalRecall]_vars

\* C11: recall is monotone: for thresholds t1 <= t2 the recall of
\* (probs >= t1) is at least the recall of (probs >= t2); two evaluations in
\* a row on the same probabilities and labels never contradict it.
C11_Recall_Is_Monotone ==
    [][(pc = "recall" /\ rec # Unset) =>
          /\ t <= t' => FracGe(rec, rec')
          /\ t' <= t => FracGe(rec', rec)]_vars

C11_Witness ==
    /\ pc = "recall"
    /\ rec = recall_score(y_test, Binarize(probs, t))
    /\ FracGt(rec, Zero)
    /\ \E u \in ProbeThresholds :
          /\ u < t
          /\ FracGt(recall_score(y_test, Binarize(probs, u)), rec)
    /\ \E u \in ProbeThresholds :
          /\ u > t
          /\ FracGt(rec, recall_score(y_test, Binarize(probs, u)))

-----------------------------------------------------------------------------
\* map: the score of every threshold whose predictions hold both classes;
\* reduce: the maximum, ties to the lowest index, 0.5 when it is not above 0
MapReduce(pr, y, grid) ==
    LET scored == {j \in DOMAIN grid : BothClasses(Binarize(pr, grid[j]))}
        sc(j) == LET p == Binarize(pr, grid[j])
                 IN  WeightedScore(recall_score(y, p), precision_score(y, p))
        values == {sc(j) : j \in scored}
        top == CHOOSE s \in values : \A z \in values : FracGe(s, z)
    IN  IF values = {} THEN DefaultThresh
        ELSE IF ~FracGt(top, Zero) THEN DefaultThresh
        ELSE grid[MinOf({j \in scored : FracEq(sc(j), top)})]
MapReduceThreshold == MapReduce(probs, y_test, thresh_range)

\* C16: the sequential running-best scan returns the threshold of the
\* map-reduce formulation (score every eligible threshold, take the maximum
\* with the lowest index on ties, fall back to 0.5 when it is not above 0).
C16_Scan_Equals_Map_Reduce ==
    pc = "done" => Returned = MapReduceThreshold

C16_Witness ==
    /\ pc = "done"
    /\ thresh_range = ArangeGrid
    /\ Cardinality(BestIdx) >= 2
    /\ Cardinality(EligibleScores) >= 2
    /\ Returned = MapReduceThreshold
    /\ Returned # DefaultThresh

-----------------------------------------------------------------------------
C13_Length_Mismatch_Fails ==
    Len(probs) # Len(y_test) =>
        /\ pc \in {"scan", "failed"}
        /\ condition_name \notin DOMAIN thresholds
        /\ pc = "scan" => (idx <= Len(thresh_range) + 1 /\ ENABLED NextConfig)

C13_Witness ==
    /\ Len(probs) < Len(y_test)
    /\ thresh_range = ArangeGrid
    /\ pc = "failed"
    /\ idx > Len(thresh_range)
    /\ final_preds # Unset

-----------------------------------------------------------------------------
\* a condition with both classes whose own training steps do not raise
Calibratable(c) == targets[c].diverse /\ ~targets[c].raises
Stored(c) == c \in DOMAIN models /\ c \in DOMAIN thresholds /\ c \in DOMAIN metrics
ConditionSet == {Conditions[i] : i \in DOMAIN Conditions}

\* the record of a calibration, computed from its own inputs only
RecordOf(pr, y) ==
    LET fp == Binarize(pr, MapReduce(pr, y, ArangeGrid))
    IN  [accuracy |-> accuracy_score(y, fp), precision |-> precision_score(y, fp),
         recall |-> recall_score(y, fp), f1_score |-> f1_score(y, fp)]

\* C14 (as stated): when the calibration of one condition fails, every other
\* condition that can be calibrated is still calibrated and stored; checked
\* where startup has come to rest after a failure.
C14_Failure_Is_Isolated ==
    (pc = "failed" /\ ~ENABLED NextServer) =>
        \A c \in ConditionSet \ {condition_name} : Calibratable(c) => Stored(c)

\* C15 (as stated): the record of a condition depends only on its own
\* probabilities and labels, whatever the other conditions are and wherever
\* it stands in the order; checked where startup has come to rest.
C15_Record_Depends_On_Own_Inputs ==
    (pc \in {"failed", "trained"}) =>
        \A c \in ConditionSet :
            Calibratable(c) =>
                /\ Stored(c)
                /\ thresholds[c] = MapReduce(targets[c].probs, targets[c].y_test, ArangeGrid)
                /\ metrics[c] = RecordOf(targets[c].probs, targets[c].y_test)

\* C17: two calibration runs on identical probabilities, labels and grid
\* store identical thresholds and identical accuracy, precision, recall, f1.
C17_Identical_Inputs_Identical_Records ==
    \A c1, c2 \in DOMAIN thresholds :
        (Stored(c1) /\ Stored(c2)
            /\ targets[c1].probs = targets[c2].probs
            /\ targets[c1].y_test = targets[c2].y_test) =>
                /\ thresholds[c1] = thresholds[c2]
                /\ metrics[c1] = metrics[c2]

C17_Witness ==
    /\ pc = "trained"
    /\ \E c1, c2 \in DOMAIN thresholds :
          /\ c1 # c2
          /\ targets[c1].probs = targets[c2].probs
          /\ targets[c1].y_test = targets[c2].y_test
          /\ thresholds[c1] = thresholds[c2]
          /\ thresholds[c1] # DefaultThresh
          /\ metrics[c1] = metrics[c2]

\* C18: once startup training is complete, no request to /, /predict,
\* /model-info, /conditions or /fetch-openweather-data changes models,
\* thresholds or metrics.
C18_Handlers_Read_Only ==
    [][pc = "trained" => UNCHANGED <<models, thresholds, metrics>>]_vars

C18_Witness ==
    /\ pc = "trained"
    /\ response # <<>>
    /\ response.endpoint = "/predict"
    /\ \E c \in DOMAIN models : c \notin response.condition_details
    /\ \E c \in DOMAIN models : thresholds[c] # DefaultThresh

PredictResponse == response # <<>> /\ response.endpoint = "/predict"

\* C19: for every condition whose probability was computed, the exposed
\* label is 1 exactly when probability >= the condition's stored threshold,
\* the rule and the threshold of the final binarization that produced the
\* condition's stored metrics.
C19_Same_Rule_And_Threshold ==
    PredictResponse =>
        \A c \in response.condition_details :
            LET r == response.weather_conditions[c]
            IN  /\ r.threshold = thresholds[c]
                /\ r.predicted = Binarize(<<r.probability>>, thresholds[c])[1]
                /\ metrics[c].recall =
                      recall_score(targets[c].y_test, Binarize(targets[c].probs, r.threshold))
                /\ metrics[c].accuracy =
                      accuracy_score(targets[c].y_test, Binarize(targets[c].probs, r.threshold))

C19_Witness ==
    /\ PredictResponse
    /\ \E c \in response.condition_details :
          /\ response.weather_conditions[c].probability = thresholds[c]
          /\ response.weather_conditions[c].predicted = 1
          /\ thresholds[c] # DefaultThresh
    /\ \E c \in response.condition_details :
          /\ response.weather_conditions[c].probability = thresholds[c] - 1
          /\ response.weather_conditions[c].predicted = 0

-----------------------------------------------------------------------------
\* C22: models, thresholds and metrics always have the same key set; a
\* condition is a key only if its labels hold both classes, so a condition
\* whose labels are all 0 or all 1 has no model, threshold or metrics entry,
\* and /model-info finds thresholds[c] and metrics[c] for every c in models.
C22_Same_Keys_Diverse_Only ==
    /\ DOMAIN models = DOMAIN thresholds
    /\ DOMAIN models = DOMAIN metrics
    /\ \A c \in DOMAIN models : targets[c].diverse
    /\ (response # <<>> /\ response.endpoint = "/model-info") =>
          /\ DOMAIN response.models = DOMAIN models
          /\ \A c \in DOMAIN models :
                /\ response.models[c].threshold = thresholds[c]
                /\ response.models[c].metrics = metrics[c]

C22_Witness ==
    /\ pc = "trained"
    /\ response # <<>> /\ response.endpoint = "/model-info"
    /\ \E c \in ConditionSet : ~targets[c].diverse /\ c \notin DOMAIN models
    /\ \E c \in ConditionSet : targets[c].diverse /\ c \in DOMAIN response.models

-----------------------------------------------------------------------------
\* the try block of the last /predict ran into a failure: an exception, or
\* no row at all
RealDataFailed ==
    request.use_real_data /\ (request.owm.raises # "none" \/ request.owm.rows = {})

\* C21: /predict with use_real_data = false does not call
\* fetch_openweather_point and reports "climate_estimate"; with use_real_data
\* = true any failure of fetching or processing (an exception, an empty
\* result) still yields a full response, from the climate estimate.
C21_Fallback_To_Climate_Estimate ==
    PredictResponse =>
        /\ ~request.use_real_data =>
              /\ ~fetch_called
              /\ response.summary.data_source = "climate_estimate"
        /\ RealDataFailed =>
              /\ response.summary.data_source = "climate_estimate"
              /\ \A n \in EstimatedNames : response.summary.weather_parameters[n] = "climate"
              /\ DOMAIN response.weather_conditions = DOMAIN models

C21_Witness ==
    /\ PredictResponse
    /\ request.use_real_data
    /\ request.owm.raises = "process"
    /\ fetch_called
    /\ response.summary.data_source = "climate_estimate"
    /\ DOMAIN response.weather_conditions # {}

\* C23: the data source follows a strict priority: the row of the target
\* date, else the mean of the rows of the target month's season, else the
\* mean of all rows, and the climate estimate on any failure or when
\* use_real_data is false; data_source and the six estimated inputs are all
\* assigned, from that one source, when the input row is built.
C23_Data_Source_Priority ==
    PredictResponse =>
        LET src == response.summary.data_source
            est == response.summary.weather_parameters
        IN  /\ src = IF ~request.use_real_data \/ RealDataFailed THEN "climate_estimate"
                     ELSE IF "target_day" \in request.owm.rows THEN "openweathermap_exact"
                     ELSE IF "same_season" \in request.owm.rows
                          THEN "openweathermap_seasonal"
                     ELSE "openweathermap_average"
            /\ DOMAIN est = EstimatedNames
            /\ \A n \in EstimatedNames :
                  est[n] = CASE src = "openweathermap_exact" -> "target_day_row"
                             [] src = "openweathermap_seasonal" -> "same_season_mean"
                             [] src = "openweathermap_average" -> "all_rows_mean"
                             [] src = "climate_estimate" -> "climate"

C23_Witness ==
    /\ PredictResponse
    /\ request.use_real_data
    /\ request.owm.raises = "none"
    /\ request.owm.rows = RowKinds
    /\ response.summary.data_source = "openweathermap_exact"

\* C24: when the prediction of one condition raises, its record is
\* probability 0.0, predicted 0, confidence 0.0, threshold 0.5 and the other
\* conditions are still predicted: weather_conditions has an entry for every
\* trained model, condition_details only for the predictions that succeeded.
C24_Prediction_Failure_Is_Isolated ==
    PredictResponse =>
        /\ DOMAIN response.weather_conditions = DOMAIN models
        /\ response.condition_details \subseteq DOMAIN models
        /\ \A c \in DOMAIN models :
              LET r == response.weather_conditions[c]
              IN  IF request.out[c].raised
                  THEN /\ r.probability = 0 /\ r.predicted = 0
                       /\ IsZero(r.confidence) /\ r.threshold = 50
                       /\ c \notin response.condition_details
                  ELSE /\ r.probability = request.out[c].prob
                       /\ r.threshold = thresholds[c]
                       /\ c \in response.condition_details

C24_Witness ==
    /\ PredictResponse
    /\ \E c1, c2 \in DOMAIN models :
          /\ request.out[c1].raised
          /\ thresholds[c1] # 50
          /\ response.weather_conditions[c1].threshold = 50
          /\ ~request.out[c2].raised
          /\ response.weather_conditions[c2].predicted = 1
          /\ response.condition_details = {c2}

-----------------------------------------------------------------------------
\* C25 (SpecPredict): in a /predict response high_risk_conditions is the set
\* of conditions predicted 1; comfort_score is 100 minus the penalties of the
\* conditions in it (uncomfortable 40, very_hot 30, very_cold 30, very_wet 20,
\* very_windy 15, very_humid 15, rain 10) and lies in -60..100;
\* overall_comfort is the band of the score (>= 80, 60..79, 40..59, 20..39,
\* < 20); comfort_factors has one entry per penalized condition.
PenaltyOf(c) ==
    CASE c = "uncomfortable" -> 40
      [] c \in {"very_hot", "very_cold"} -> 30
      [] c = "very_wet" -> 20
      [] c \in {"very_windy", "very_humid"} -> 15
      [] c = "rain" -> 10
      [] OTHER -> 0

RECURSIVE TotalPenalty(_)
TotalPenalty(S) ==
    IF S = {} THEN 0
    ELSE LET c == CHOOSE x \in S : TRUE IN PenaltyOf(c) + TotalPenalty(S \ {c})

BandOf(cs) ==
    CASE cs >= 80 -> "very comfortable"
      [] cs \in 60..79 -> "comfortable"
      [] cs \in 40..59 -> "somewhat uncomfortable"
      [] cs \in 20..39 -> "uncomfortable"
      [] cs < 20 -> "very uncomfortable"

C25_Comfort_Summary ==
    PredictResponse =>
        LET wp == response.weather_conditions
            s == response.summary
            hr == {c \in DOMAIN wp : wp[c].predicted = 1}
        IN  /\ s.high_risk_conditions = hr
            /\ s.comfort_score = 100 - TotalPenalty(hr)
            /\ s.comfort_score \in -60..100
            /\ s.overall_comfort = BandOf(s.comfort_score)
            /\ Len(s.comfort_factors) = Cardinality({c \in hr : PenaltyOf(c) > 0})

\* all seven conditions are predicted and the score is at its minimum
C25_Witness ==
    /\ PredictResponse
    /\ response.summary.high_risk_conditions = AllConditions
    /\ response.summary.comfort_score = -60
    /\ response.summary.overall_comfort = "very uncomfortable"
    /\ Len(response.summary.comfort_factors) = 7

\* a score on the boundary of the first band
C25_Boundary == PredictResponse /\ response.summary.comfort_score = 80

-----------------------------------------------------------------------------
\* C26 (SpecFetch): fetch_openweather_point calls _owm_timemachine_daily only
\* for days of [max(start_date, today - 5), min(end_date, today - 1)], at most
\* 5 times, and the day loop ends; it asks for the forecast only when
\* end_date >= today; a day or a forecast call that fails does not end the
\* function: every day of the window is asked for and the forecast is asked
\* for whenever end_date >= today; it raises HTTP 500 exactly when parts is
\* empty, and a returned frame has every name of params_list as a column.
HistoryWindow ==
    {x \in (today - MaxBack)..(today + MaxAhead) :
        /\ x >= start_date /\ x >= today - HistoryDays
        /\ x <= end_date /\ x <= today - 1}

ForecastAsked == forecast # "not_requested"

FetchSafe ==
    /\ \A i \in DOMAIN requested : requested[i] \in HistoryWindow
    /\ \A i, j \in DOMAIN requested : i < j => requested[i] < requested[j]
    /\ Len(requested) <= HistoryDays
    /\ ForecastAsked => end_date >= today
    /\ fetch_pc \in {"forecast", "collect", "done"} =>
           {requested[i] : i \in DOMAIN requested} = HistoryWindow
    /\ fetch_pc \in {"collect", "done"} => (ForecastAsked <=> end_date >= today)
    /\ fetch_pc = "done" =>
           /\ fetched.raised <=> parts = <<>>
           /\ fetched.raised => fetched.status_code = 500
           /\ ~fetched.raised => params_list \subseteq fetched.columns

C26_Fetch_Window_And_Failures == []FetchSafe /\ <>(fetch_pc = "done")

\* all five historical days were asked for, some failed, the forecast call
\* failed, and a frame came back with a column the answers did not have
C26_Witness ==
    /\ fetch_pc = "done"
    /\ Len(requested) = HistoryDays
    /\ Len(parts) \in 1..(HistoryDays - 1)
    /\ forecast = "raised"
    /\ ~fetched.raised
    /\ "ALLSKY_SFC_SW_DWN" \in fetched.columns

\* nothing was collected although days and the forecast were asked for
C26_Nothing_Collected ==
    /\ fetch_pc = "done"
    /\ requested # <<>>
    /\ ForecastAsked
    /\ fetched.raised

-----------------------------------------------------------------------------
\* C27 (SpecTargets): for every row, very_wet = 1 implies rain = 1;
\* uncomfortable = 1 exactly when TMAX >= 104 or TMIN <= 14 or
\* TMAX - TMIN >= 36 or HEAT_INDEX >= 105; every label is 0 or 1.
Labelled == row_targets # <<>>

C27_Labels_Consistent ==
    Labelled =>
        /\ row_targets.very_wet = 1 => row_targets.rain = 1
        /\ row_targets.uncomfortable = 1 <=>
               \/ df_row.TMAX # NaN /\ df_row.TMAX[1] >= 104
               \/ df_row.TMIN # NaN /\ df_row.TMIN[1] <= 14
               \/ /\ df_row.TMAX # NaN
                  /\ df_row.TMIN # NaN
                  /\ df_row.TMAX[1] - df_row.TMIN[1] >= 36
               \/ df_row.HEAT_INDEX # NaN /\ df_row.HEAT_INDEX[1] >= 105
        /\ \A c \in DOMAIN row_targets : row_targets[c] \in {0, 1}

\* a very wet row that is uncomfortable by its temperature range alone
C27_Witness ==
    /\ Labelled
    /\ row_targets.very_wet = 1
    /\ row_targets.rain = 1
    /\ row_targets.uncomfortable = 1
    /\ df_row.TMAX = <<95>>
    /\ df_row.TMIN = <<59>>
    /\ df_row.HEAT_INDEX = <<104>>

-----------------------------------------------------------------------------
\* C28 (SpecSeason): get_season returns 0 for months 12, 1, 2, 1 for 3, 4, 5,
\* 2 for 6, 7, 8 and 3 for every other value, in or out of 1..12; and the
\* preprocessor's _get_season returns the name that season_names gives to
\* get_season's number.
SeasonApplied == season # <<>>

C28_Seasons_Agree ==
    SeasonApplied =>
        /\ season.get_season \in 0..3
        /\ season.get_season = 0 <=> MONTH \in {12, 1, 2}
        /\ season.get_season = 1 <=> MONTH \in {3, 4, 5}
        /\ season.get_season = 2 <=> MONTH \in {6, 7, 8}
        /\ season.get_season = 3 <=> MONTH \notin {12, 1, 2, 3, 4, 5, 6, 7, 8}
        /\ season.preprocessor = season_names[season.get_season + 1]

\* an out-of-range month is Fall in both
C28_Witness ==
    /\ SeasonApplied
    /\ MONTH = 13
    /\ season.get_season = 3
    /\ season.preprocessor = "Fall"

-----------------------------------------------------------------------------
\* C29 (SpecPreprocessor): self.feature_sets exists only once
\* create_feature_sets has run; a call of save_processed_data or of
\* generate_summary_report returns only if create_feature_sets ran before it;
\* run_full_preprocessing runs initial_inspection, parse_dates,
\* handle_missing_values, save_basic_data, generate_basic_summary in this
\* order and nothing else (all five when it returns, the first of them up to
\* the one that raised otherwise), so no method that reads feature_sets; and
\* data/weather_cleaned.csv has only columns among STATION, NAME, DATE, YEAR,
\* MONTH, DAY, PRCP, TAVG, TMAX, TMIN.
BasicPipeline ==
    <<"run_full_preprocessing", "initial_inspection", "parse_dates",
      "handle_missing_values", "save_basic_data", "generate_basic_summary">>

NeedFeatureSets ==
    {"save_processed_data", "_save_data_dictionary", "generate_summary_report"}

IsPrefix(p, q) == Len(p) <= Len(q) /\ p = SubSeq(q, 1, Len(p))

\* what had been executed when the last call began
ExecutedBefore == SubSeq(executed, 1, Len(executed) - Len(last.ran))

C29_Preprocessor_Call_Order ==
    /\ feature_sets # Unset => "create_feature_sets" \in Range(executed)
    /\ last # <<>> =>
        /\ (last.method \in {"save_processed_data", "generate_summary_report"}
            /\ ~last.raised)
               => "create_feature_sets" \in Range(ExecutedBefore)
        /\ last.method = "run_full_preprocessing" =>
               /\ IsPrefix(last.ran, BasicPipeline)
               /\ ~last.raised => last.ran = BasicPipeline
               /\ Range(last.ran) \cap NeedFeatureSets = {}
               /\ ~last.raised =>
                      /\ "data/weather_cleaned.csv" \in DOMAIN files
                      /\ files["data/weather_cleaned.csv"] \subseteq
                             {"STATION", "NAME", "DATE", "YEAR", "MONTH", "DAY",
                              "PRCP", "TAVG", "TMAX", "TMIN"}
    /\ "data/weather_cleaned.csv" \in DOMAIN files =>
           files["data/weather_cleaned.csv"] \subseteq
               {"STATION", "NAME", "DATE", "YEAR", "MONTH", "DAY",
                "PRCP", "TAVG", "TMAX", "TMIN"}

\* the pipeline ran to its end on a frame with derived columns and saved
\* fewer columns than the frame has; feature_sets does not exist
C29_Witness ==
    /\ last # <<>>
    /\ last.method = "run_full_preprocessing"
    /\ ~last.raised
    /\ "TEMP_RANGE" \in df
    /\ "SEASON" \in df
    /\ feature_sets = Unset
    /\ files["data/weather_cleaned.csv"] # df

\* save_processed_data returned, after create_feature_sets
C29_Saved_After_Feature_Sets ==
    /\ last # <<>>
    /\ last.method = "save_processed_data"
    /\ ~last.raised

\* save_processed_data raised, leaving its files behind
C29_Save_Raised ==
    /\ last # <<>>
    /\ last.method = "save_processed_data"
    /\ last.raised
    /\ "data/weather_processed_ml_ready.csv" \in DOMAIN files

====
